---- MODULE Spec2Model ----
(***************************************************************************)
(* The Spotify dashboard of src/app.py as a state machine: each browser    *)
(* session runs main() once per page load; a run walks through the code    *)
(* exchange, the four provider calls, the local write, the raw upload, the *)
(* fixed sleep, the single processed-object lookup and the rendering.      *)
(* The provider, the object store, the external transformer and the wall   *)
(* clock are the environment.                                              *)
(***************************************************************************)
EXTENDS Integers, Sequences, FiniteSets, TLC

\* ------------------------------------------------------------ bounds
\* Page loads that carry a code (callbacks and reloads), over all sessions.
MaxLoads == 3
\* Wall-clock seconds the model follows.
MaxTime == 6
\* Pieces a file name given to the key derivation is made of.
MaxPieces == 3
\* The largest mainstream score given to section 2, in hundredths.
MaxScore == 10000
\* How many milliseconds before the cutoff the oldest play of a history lies.
MaxOld == 2

\* ------------------------------------------------------------ constants
\* time.sleep(5)
FixedDelay == 5

Sessions == {"s1", "s2"}
Codes == {"c1", "c2"}
NoCode == "none"
NoToken == "none"
NoKey == ""

\* ------------------------------------------------------------ strings
Digit(d) == SubSeq("0123456789", d + 1, d + 1)

TwoDigits(n) == Digit((n \div 10) % 10) \o Digit(n % 10)

\* datetime.now().strftime("%Y%m%d_%H%M%S"), the clock counted in seconds
\* from midnight of a fixed day.
Stamp(t) ==
    "20250101_" \o TwoDigits(t \div 3600) \o TwoDigits((t \div 60) % 60)
                \o TwoDigits(t % 60)

\* The file name with the timestamp cut to the minute.
LocalFileNameToTheMinute(t) ==
    "user_spotify_data_20250101_" \o TwoDigits(t \div 3600)
        \o TwoDigits((t \div 60) % 60) \o ".json"

LocalFileName(t) == "user_spotify_data_" \o Stamp(t) \o ".json"

RawKeyOf(local_file_name) == "raw/" \o local_file_name

\* Where old occurs in s.
Occurrences(s, old) ==
    {i \in 1..(Len(s) - Len(old) + 1) : SubSeq(s, i, i + Len(old) - 1) = old}

\* Python's str.replace: every non-overlapping occurrence, leftmost first.
RECURSIVE Replace(_, _, _)
Replace(s, old, new) ==
    IF Occurrences(s, old) = {} THEN s
    ELSE LET first == CHOOSE i \in Occurrences(s, old) :
                          \A j \in Occurrences(s, old) : i <= j
         IN  SubSeq(s, 1, first - 1) \o new
                \o Replace(SubSeq(s, first + Len(old), Len(s)), old, new)

\* raw_key.replace("raw/", "processed/").replace(".json", ".processed.json")
Derive(raw_key) ==
    Replace(Replace(raw_key, "raw/", "processed/"), ".json", ".processed.json")

\* ------------------------------------------------------------ rendering
\* dict.get(key, default)
Get(d, key, default) == IF key \in DOMAIN d THEN d[key] ELSE default

\* The scores of the form x.x5 (in hundredths) that Python's round(score, 1)
\* rounds up: the double nearest to the decimal lies above the tie.
TiesRoundedUp ==
    {
      5, 45, 55, 65, 75, 105, 135, 155, 175, 185, 235, 245, 275, 285, 295, 335,
      345, 375, 385, 395, 415, 445, 465, 475, 495, 515, 545, 565, 575, 595, 615, 645,
      665, 675, 695, 715, 745, 765, 775, 795, 805, 815, 855, 865, 875, 905, 915, 955,
      965, 975, 1005, 1015, 1055, 1065, 1075, 1105, 1115, 1155, 1165, 1175, 1205, 1215, 1255, 1265,
      1275, 1305, 1315, 1355, 1365, 1375, 1405, 1415, 1455, 1465, 1475, 1505, 1515, 1555, 1565, 1575,
      1605, 1635, 1655, 1675, 1685, 1705, 1735, 1755, 1775, 1785, 1805, 1835, 1855, 1875, 1885, 1905,
      1935, 1955, 1975, 1985, 2005, 2035, 2055, 2075, 2085, 2105, 2135, 2155, 2175, 2185, 2205, 2235,
      2255, 2275, 2285, 2305, 2335, 2355, 2375, 2385, 2405, 2435, 2455, 2475, 2485, 2505, 2535, 2555,
      2575, 2585, 2605, 2635, 2655, 2675, 2685, 2705, 2735, 2755, 2775, 2785, 2805, 2835, 2855, 2875,
      2885, 2905, 2935, 2955, 2975, 2985, 3005, 3035, 3055, 3075, 3085, 3105, 3135, 3155, 3175, 3185,
      3235, 3245, 3275, 3285, 3295, 3335, 3345, 3375, 3385, 3395, 3435, 3445, 3475, 3485, 3495, 3535,
      3545, 3575, 3585, 3595, 3635, 3645, 3675, 3685, 3695, 3735, 3745, 3775, 3785, 3795, 3835, 3845,
      3875, 3885, 3895, 3935, 3945, 3975, 3985, 3995, 4035, 4045, 4075, 4085, 4095, 4135, 4145, 4175,
      4185, 4195, 4235, 4245, 4275, 4285, 4295, 4335, 4345, 4375, 4385, 4395, 4435, 4445, 4475, 4485,
      4495, 4535, 4545, 4575, 4585, 4595, 4635, 4645, 4675, 4685, 4695, 4735, 4745, 4775, 4785, 4795,
      4835, 4845, 4875, 4885, 4895, 4935, 4945, 4975, 4985, 4995, 5035, 5045, 5075, 5085, 5095, 5135,
      5145, 5175, 5185, 5195, 5235, 5245, 5275, 5285, 5295, 5335, 5345, 5375, 5385, 5395, 5435, 5445,
      5475, 5485, 5495, 5535, 5545, 5575, 5585, 5595, 5635, 5645, 5675, 5685, 5695, 5735, 5745, 5775,
      5785, 5795, 5835, 5845, 5875, 5885, 5895, 5935, 5945, 5975, 5985, 5995, 6035, 6045, 6075, 6085,
      6095, 6135, 6145, 6175, 6185, 6195, 6235, 6245, 6275, 6285, 6295, 6335, 6345, 6375, 6385, 6395,
      6415, 6445, 6465, 6475, 6495, 6515, 6545, 6565, 6575, 6595, 6615, 6645, 6665, 6675, 6695, 6715,
      6745, 6765, 6775, 6795, 6815, 6845, 6865, 6875, 6895, 6915, 6945, 6965, 6975, 6995, 7015, 7045,
      7065, 7075, 7095, 7115, 7145, 7165, 7175, 7195, 7215, 7245, 7265, 7275, 7295, 7315, 7345, 7365,
      7375, 7395, 7415, 7445, 7465, 7475, 7495, 7515, 7545, 7565, 7575, 7595, 7615, 7645, 7665, 7675,
      7695, 7715, 7745, 7765, 7775, 7795, 7815, 7845, 7865, 7875, 7895, 7915, 7945, 7965, 7975, 7995,
      8015, 8045, 8065, 8075, 8095, 8115, 8145, 8165, 8175, 8195, 8215, 8245, 8265, 8275, 8295, 8315,
      8345, 8365, 8375, 8395, 8415, 8445, 8465, 8475, 8495, 8515, 8545, 8565, 8575, 8595, 8615, 8645,
      8665, 8675, 8695, 8715, 8745, 8765, 8775, 8795, 8815, 8845, 8865, 8875, 8895, 8915, 8945, 8965,
      8975, 8995, 9015, 9045, 9065, 9075, 9095, 9115, 9145, 9165, 9175, 9195, 9215, 9245, 9265, 9275,
      9295, 9315, 9345, 9365, 9375, 9395, 9415, 9445, 9465, 9475, 9495, 9515, 9545, 9565, 9575, 9595,
      9615, 9645, 9665, 9675, 9695, 9715, 9745, 9765, 9775, 9795, 9815, 9845, 9865, 9875, 9895, 9915,
      9945, 9965, 9975, 9995
    }

\* round(mainstream_score, 1): hundredths in, tenths out.
Round1(h) ==
    LET q == h \div 10
        r == h % 10
    IN  IF r > 5 \/ (r = 5 /\ h \in TiesRoundedUp) THEN q + 1 ELSE q

NoData == [kind |-> "no_data"]
NotRendered == [kind |-> "not_rendered"]

\* SECTION 1: Genre Distribution
RenderGenres(processed_data) ==
    LET genres == Get(processed_data, "genres", <<>>)
        genre_labels == Get(genres, "labels", <<>>)
        genre_sizes == Get(genres, "sizes", <<>>)
    IN  IF Len(genre_labels) > 0 /\ Len(genre_sizes) > 0
        THEN [kind |-> "pie", labels |-> genre_labels, sizes |-> genre_sizes]
        ELSE NoData

\* Section 2 with the first threshold made strict.
RenderMainstreamStrict(processed_data) ==
    LET mainstream_score == Get(processed_data, "mainstream_score", 0)
        mainstream_score_rounded == Round1(mainstream_score)
    IN  IF mainstream_score_rounded > 0
        THEN [kind |-> "score", shown |-> mainstream_score_rounded,
              branch |-> IF mainstream_score_rounded > 700 THEN "very_mainstream"
                         ELSE IF mainstream_score_rounded >= 400
                              THEN "moderately_mainstream"
                              ELSE "indie"]
        ELSE NoData

\* SECTION 2: Mainstream Score (scores in hundredths, shown in tenths)
RenderMainstream(processed_data) ==
    LET mainstream_score == Get(processed_data, "mainstream_score", 0)
        mainstream_score_rounded == Round1(mainstream_score)
    IN  IF mainstream_score_rounded > 0
        THEN [kind |-> "score", shown |-> mainstream_score_rounded,
              branch |-> IF mainstream_score_rounded >= 700 THEN "very_mainstream"
                         ELSE IF mainstream_score_rounded >= 400
                              THEN "moderately_mainstream"
                              ELSE "indie"]
        ELSE NoData

\* SECTION 3: Day vs. Night
RenderDayNight(processed_data) ==
    LET day_vs_night == Get(processed_data, "day_vs_night", <<>>)
        day_percent == Get(day_vs_night, "day_percent", 0)
        night_percent == Get(day_vs_night, "night_percent", 0)
    IN  [kind |-> "text", day |-> day_percent, night |-> night_percent,
         branch |-> IF night_percent > day_percent THEN "night" ELSE "day"]

\* display_grid(items, item_type, columns_per_row = 3)
display_grid(items, item_type) ==
    IF Len(items) = 0
    THEN NoData
    ELSE [kind |-> "grid", item_type |-> item_type, cells |-> Len(items),
          rows |-> (Len(items) + 2) \div 3]

\* SECTION 6: Daily Listening
RenderListening(processed_data) ==
    LET listening_time == Get(processed_data, "listening_time", <<>>)
        labels == Get(listening_time, "daily_listening_labels", <<>>)
        values == Get(listening_time, "daily_listening_values", <<>>)
    IN  IF Len(labels) > 0 /\ Len(values) > 0
        THEN [kind |-> "bar", labels |-> labels, values |-> values]
        ELSE NoData

SectionNames ==
    {"genres", "mainstream_score", "day_vs_night", "top_artists", "top_tracks",
     "listening_time"}

\* Sections 1 to 6 of main, in the order of the code: none depends on another.
RenderSections(processed_data) ==
    [genres |-> RenderGenres(processed_data),
     mainstream_score |-> RenderMainstream(processed_data),
     day_vs_night |-> RenderDayNight(processed_data),
     top_artists |-> display_grid(Get(processed_data, "top_artists", <<>>), "artist"),
     top_tracks |-> display_grid(Get(processed_data, "top_tracks", <<>>), "track"),
     listening_time |-> RenderListening(processed_data)]

NoSections == [k \in SectionNames |-> NotRendered]

\* ------------------------------------------------------------ processed snapshots
\* A sub-object of a ProcessedSnapshot is missing, empty, or holds data.
Shapes == {"missing", "empty", "data"}

EmptyOf(k) == IF k = "mainstream_score" THEN 0 ELSE <<>>

DataOf(k) ==
    CASE k = "genres" -> [labels |-> <<"pop", "rock">>, sizes |-> <<60, 40>>]
      [] k = "mainstream_score" -> 7234
      [] k = "day_vs_night" -> [day_percent |-> 30, night_percent |-> 70]
      [] k = "top_artists" ->
            <<[rank |-> 1, artist_name |-> "a1", artist_image |-> "img"]>>
      [] k = "top_tracks" ->
            <<[rank |-> 1, track_name |-> "t1", artist_name |-> "a1",
               album_image |-> "img"]>>
      [] k = "listening_time" ->
            [daily_listening_labels |-> <<"2025-01-01">>,
             daily_listening_values |-> <<42>>]

MakeSnapshot(shape) ==
    [k \in {x \in SectionNames : shape[x] # "missing"} |->
        IF shape[k] = "empty" THEN EmptyOf(k) ELSE DataOf(k)]

AllShapes == [SectionNames -> Shapes]

\* The snapshots the page loads of the dashboard model read: complete, empty
\* of everything, and complete but for the day/night split.
SampleShapes ==
    {[k \in SectionNames |-> "data"],
     [k \in SectionNames |-> "missing"],
     [k \in SectionNames |-> IF k = "day_vs_night" THEN "missing" ELSE "data"]}

\* ------------------------------------------------------------ state
VARIABLES
    now,              \* the wall clock, in seconds
    loads,            \* page loads with a code so far
    pc,               \* where each session's run of main stands
    url,              \* the code query parameter of each session's browser URL
    linkShown,        \* the page shows the "Login to Spotify" link
    token,            \* token_info["access_token"] of the running main
    cachePath,        \* cache_path of the run's SpotifyOAuth
    localName,        \* local_file_name
    rawKey,           \* raw_key, as returned to main
    wakeAt,           \* when the run's time.sleep returns
    uploadedAt,       \* when the run's raw upload completed
    stampedAt,        \* when the run took the timestamp of its file name
    error,            \* the error the page shows
    sections,         \* what each of the six sections shows
    lookup,           \* the outcome of fetch_processed_data
    trail,            \* the operations of the current run, in order
    codeStatus,       \* the provider's record of each authorization code
    dotCache,         \* the file .cache exists
    cacheFiles,       \* the token caches written by SpotifyOAuth
    localFiles,       \* the working directory: file name -> content
    rawBucket,        \* spotify-raw-data-dk: key -> content
    processedBucket,  \* spotify-processed-data-dk: the keys present
    log,              \* the provider's record of the exchange requests
    keyIn,            \* a raw key given to the key derivation
    keyOut,           \* its processed key
    shapeIn,          \* the shape of a processed snapshot given to the renderer
    rendered,         \* its six sections
    scoreIn,          \* a mainstream_score given to section 2, in hundredths
    scoreOut,         \* what section 2 shows for it
    nowMs,            \* datetime.now() of the recently-played step, in ms
    plays,            \* the played_at times (ms) of the user's play history
    recently_played,  \* the provider's answer to the recently-played call
    rawRecent,        \* recently_played of the stored RawSnapshot
    extracted,        \* the RawSnapshot has been stored
    pcExtract         \* where the recently-played step stands

runVars ==
    <<pc, url, linkShown, token, cachePath, localName, rawKey, wakeAt,
      uploadedAt, stampedAt, error, sections, lookup, trail>>

envVars ==
    <<now, loads, codeStatus, dotCache, cacheFiles, localFiles, rawBucket,
      processedBucket, log>>

pureVars ==
    <<keyIn, keyOut, shapeIn, rendered, scoreIn, scoreOut, nowMs, plays,
      recently_played, rawRecent, extracted, pcExtract>>

vars == <<runVars, envVars, pureVars>>

CodeList == <<"c1", "c2">>

Token(code) == "token_" \o code

Append1(f, s, x) == [f EXCEPT ![s] = Append(@, x)]

\* ------------------------------------------------------------ initial state
PageInit ==
    /\ now = 0
    /\ loads = 0
    /\ pc = [s \in Sessions |-> "idle"]
    /\ url = [s \in Sessions |-> NoCode]
    /\ linkShown = [s \in Sessions |-> FALSE]
    /\ token = [s \in Sessions |-> NoToken]
    /\ cachePath = [s \in Sessions |-> ""]
    /\ localName = [s \in Sessions |-> ""]
    /\ rawKey = [s \in Sessions |-> NoKey]
    /\ wakeAt = [s \in Sessions |-> 0]
    /\ uploadedAt = [s \in Sessions |-> 0]
    /\ stampedAt = [s \in Sessions |-> 0]
    /\ error = [s \in Sessions |-> "none"]
    /\ sections = [s \in Sessions |-> NoSections]
    /\ lookup = [s \in Sessions |-> "none"]
    /\ trail = [s \in Sessions |-> <<>>]
    /\ codeStatus = [c \in Codes |-> "unissued"]
    /\ dotCache \in BOOLEAN
    /\ cacheFiles = {}
    /\ localFiles = <<>>
    /\ rawBucket = <<>>
    /\ processedBucket = {}
    /\ log = <<>>

DeriveIdle ==
    /\ keyIn = NoKey
    /\ keyOut = NoKey

RenderIdle ==
    /\ shapeIn = [k \in SectionNames |-> "missing"]
    /\ rendered = NoSections

ScoreIdle ==
    /\ scoreIn = 0
    /\ scoreOut = NotRendered

ExtractIdle ==
    /\ nowMs = 0
    /\ plays = {}
    /\ recently_played = {}
    /\ rawRecent = {}
    /\ extracted = FALSE
    /\ pcExtract = "done"

PureIdle == DeriveIdle /\ RenderIdle /\ ScoreIdle /\ ExtractIdle

Init == PageInit /\ PureIdle

\* ------------------------------------------------------------ page loads
\* uuid.uuid4() is unique: the cache path drawn for a session is one that no
\* cache file and no other session's SpotifyOAuth has.
PathsInUse(s) ==
    {f[1] : f \in cacheFiles} \cup {cachePath[t] : t \in Sessions \ {s}}

CachePathNo(n) == ".cache_" \o ToString(n)

\* One cache path for every SpotifyOAuth.
SharedCachePath(s) == CachePathNo(1)

FreshCachePath(s) ==
    CachePathNo(CHOOSE n \in 1..(Cardinality(PathsInUse(s)) + 1) :
                    /\ CachePathNo(n) \notin PathsInUse(s)
                    /\ \A m \in 1..(n - 1) : CachePathNo(m) \in PathsInUse(s))

\* get_spotipy_oauth: remove .cache, draw a fresh cache path.
get_spotipy_oauth(s) ==
    /\ dotCache' = FALSE
    /\ cachePath' = [cachePath EXCEPT ![s] = FreshCachePath(s)]

\* A run of main starts with nothing of the previous run: main keeps no
\* session state.
FreshRun(s) ==
    /\ error' = [error EXCEPT ![s] = "none"]
    /\ sections' = [sections EXCEPT ![s] = NoSections]
    /\ lookup' = [lookup EXCEPT ![s] = "none"]

\* BeginRun with the login link shown as well, as if the else branch ran too.
BeginRunShowsLink(s) ==
    /\ loads < MaxLoads
    /\ pc[s] = "idle"
    /\ loads' = loads + 1
    /\ get_spotipy_oauth(s)
    /\ FreshRun(s)
    /\ linkShown' = [linkShown EXCEPT ![s] = TRUE]
    /\ trail' = [trail EXCEPT ![s] = <<>>]
    /\ pc' = [pc EXCEPT ![s] = "exchange"]
    /\ UNCHANGED <<token, localName, rawKey, wakeAt, uploadedAt, stampedAt>>
    /\ UNCHANGED <<now, cacheFiles, localFiles, rawBucket, processedBucket, log>>
    /\ UNCHANGED pureVars

\* main with "code" in the query parameters, up to the exchange.
BeginRun(s) ==
    /\ loads < MaxLoads
    /\ pc[s] = "idle"
    /\ loads' = loads + 1
    /\ get_spotipy_oauth(s)
    /\ FreshRun(s)
    /\ linkShown' = [linkShown EXCEPT ![s] = FALSE]
    /\ trail' = [trail EXCEPT ![s] = <<>>]
    /\ pc' = [pc EXCEPT ![s] = "exchange"]
    /\ UNCHANGED <<token, localName, rawKey, wakeAt, uploadedAt, stampedAt>>
    /\ UNCHANGED <<now, cacheFiles, localFiles, rawBucket, processedBucket, log>>
    /\ UNCHANGED pureVars

\* The user opens the base URL: main without "code" shows the login link.
VisitBase(s) ==
    /\ pc[s] = "idle"
    /\ url' = [url EXCEPT ![s] = NoCode]
    /\ dotCache' = FALSE
    /\ FreshRun(s)
    /\ linkShown' = [linkShown EXCEPT ![s] = TRUE]
    /\ trail' = [trail EXCEPT ![s] = <<"authorize_url">>]
    /\ UNCHANGED <<pc, token, cachePath, localName, rawKey, wakeAt, uploadedAt, stampedAt>>
    /\ UNCHANGED <<now, loads, codeStatus, cacheFiles, localFiles,
                   rawBucket, processedBucket, log>>
    /\ UNCHANGED pureVars

\* The user follows the link and approves: the provider redirects the browser
\* to the callback URL with a code it has not issued before.
Callback(s) ==
    /\ linkShown[s]
    /\ \E i \in 1..Len(CodeList) :
          /\ codeStatus[CodeList[i]] = "unissued"
          /\ \A j \in 1..(i - 1) : codeStatus[CodeList[j]] # "unissued"
          /\ codeStatus' = [codeStatus EXCEPT ![CodeList[i]] = "valid"]
          /\ url' = [url EXCEPT ![s] = CodeList[i]]
    /\ BeginRun(s)

\* The user reloads the callback URL: the query parameters are as they were.
Reload(s) ==
    /\ url[s] # NoCode
    /\ BeginRun(s)
    /\ UNCHANGED <<url, codeStatus>>

\* The run returns: the page stays as rendered (error, sections), the locals
\* of main are gone.
Return(s) ==
    /\ pc' = [pc EXCEPT ![s] = "idle"]
    /\ token' = [token EXCEPT ![s] = NoToken]
    /\ cachePath' = [cachePath EXCEPT ![s] = ""]
    /\ localName' = [localName EXCEPT ![s] = ""]
    /\ rawKey' = [rawKey EXCEPT ![s] = NoKey]
    /\ wakeAt' = [wakeAt EXCEPT ![s] = 0]
    /\ uploadedAt' = [uploadedAt EXCEPT ![s] = 0]
    /\ stampedAt' = [stampedAt EXCEPT ![s] = 0]

\* ------------------------------------------------------------ authorization
\* sp_oauth.get_access_token(code) returns a token: the cache at the fresh
\* cache path is empty, so the code goes to the provider, which accepts a code
\* it issued and has neither consumed nor expired.
ExchangeOk(s) ==
    /\ pc[s] = "exchange"
    /\ codeStatus[url[s]] = "valid"
    /\ codeStatus' = [codeStatus EXCEPT ![url[s]] = "consumed"]
    /\ token' = [token EXCEPT ![s] = Token(url[s])]
    /\ cacheFiles' = cacheFiles \cup {<<cachePath[s], Token(url[s])>>}
    /\ log' = Append(log, [sess |-> s, code |-> url[s],
                           was |-> codeStatus[url[s]], ok |-> TRUE])
    /\ trail' = Append1(trail, s, "exchange")
    /\ pc' = [pc EXCEPT ![s] = "profile"]
    /\ UNCHANGED <<url, linkShown, cachePath, localName, rawKey, wakeAt,
                   uploadedAt, stampedAt, error, sections, lookup>>
    /\ UNCHANGED <<now, loads, dotCache, localFiles, rawBucket, processedBucket>>
    /\ UNCHANGED pureVars

\* ExchangeFail with the failure swallowed: the run goes on to the extraction.
ExchangeFailGoesOn(s) ==
    /\ pc[s] = "exchange"
    /\ codeStatus[url[s]] # "valid"
    /\ log' = Append(log, [sess |-> s, code |-> url[s],
                           was |-> codeStatus[url[s]], ok |-> FALSE])
    /\ trail' = Append1(trail, s, "exchange_failed")
    /\ error' = [error EXCEPT ![s] = "AuthExchangeError"]
    /\ pc' = [pc EXCEPT ![s] = "profile"]
    /\ UNCHANGED <<url, linkShown, token, cachePath, localName, rawKey, wakeAt,
                   uploadedAt, stampedAt, sections, lookup>>
    /\ UNCHANGED <<now, loads, codeStatus, dotCache, cacheFiles, localFiles,
                   rawBucket, processedBucket>>
    /\ UNCHANGED pureVars

\* The provider rejects the code (consumed or expired): get_access_token
\* raises, or returns no usable token info; main shows the error and returns.
ExchangeFail(s) ==
    /\ pc[s] = "exchange"
    /\ codeStatus[url[s]] # "valid"
    /\ log' = Append(log, [sess |-> s, code |-> url[s],
                           was |-> codeStatus[url[s]], ok |-> FALSE])
    /\ trail' = Append1(trail, s, "exchange_failed")
    /\ error' = [error EXCEPT ![s] = "AuthExchangeError"]
    /\ Return(s)
    /\ UNCHANGED <<url, linkShown, sections, lookup>>
    /\ UNCHANGED <<now, loads, codeStatus, dotCache, cacheFiles, localFiles,
                   rawBucket, processedBucket>>
    /\ UNCHANGED pureVars

\* The provider lets an unused code expire.
Expire(c) ==
    /\ codeStatus[c] = "valid"
    /\ codeStatus' = [codeStatus EXCEPT ![c] = "expired"]
    /\ UNCHANGED runVars
    /\ UNCHANGED <<now, loads, dotCache, cacheFiles, localFiles, rawBucket,
                   processedBucket, log>>
    /\ UNCHANGED pureVars

\* ------------------------------------------------------------ extraction
\* authenticate_and_extract: current_user, current_user_top_artists,
\* current_user_top_tracks, current_user_recently_played, one after another.
ProviderCalls == <<"profile", "artists", "tracks", "recent">>

CallIndex(p) == CHOOSE i \in 1..Len(ProviderCalls) : ProviderCalls[i] = p

AfterCall(p) ==
    IF CallIndex(p) < Len(ProviderCalls) THEN ProviderCalls[CallIndex(p) + 1]
    ELSE "write"

InCall(s) == \E i \in 1..Len(ProviderCalls) : pc[s] = ProviderCalls[i]

ProviderCallOk(s) ==
    /\ InCall(s)
    /\ trail' = Append1(trail, s, pc[s])
    /\ pc' = [pc EXCEPT ![s] = AfterCall(pc[s])]
    /\ UNCHANGED <<url, linkShown, token, cachePath, localName, rawKey, wakeAt,
                   uploadedAt, stampedAt, error, sections, lookup>>
    /\ UNCHANGED envVars
    /\ UNCHANGED pureVars

\* ProviderCallFail with the exception caught around the single call: the
\* extraction goes on with the next step.
ProviderCallFailGoesOn(s) ==
    /\ InCall(s)
    /\ trail' = Append1(trail, s, pc[s] \o "_failed")
    /\ error' = [error EXCEPT ![s] = "ExtractionError"]
    /\ pc' = [pc EXCEPT ![s] = AfterCall(pc[s])]
    /\ UNCHANGED <<url, linkShown, token, cachePath, localName, rawKey, wakeAt,
                   uploadedAt, stampedAt, sections, lookup>>
    /\ UNCHANGED envVars
    /\ UNCHANGED pureVars

\* A provider call raises: the exception leaves authenticate_and_extract and
\* main shows it and returns.
ProviderCallFail(s) ==
    /\ InCall(s)
    /\ trail' = Append1(trail, s, pc[s] \o "_failed")
    /\ error' = [error EXCEPT ![s] = "ExtractionError"]
    /\ Return(s)
    /\ UNCHANGED <<url, linkShown, sections, lookup>>
    /\ UNCHANGED envVars
    /\ UNCHANGED pureVars

\* json.dump of the combined document into user_spotify_data_<timestamp>.json
WriteLocal(s) ==
    /\ pc[s] = "write"
    /\ localName' = [localName EXCEPT ![s] = LocalFileName(now)]
    /\ stampedAt' = [stampedAt EXCEPT ![s] = now]
    /\ localFiles' = (LocalFileName(now) :> token[s]) @@ localFiles
    /\ trail' = Append1(trail, s, "write")
    /\ pc' = [pc EXCEPT ![s] = "upload"]
    /\ UNCHANGED <<url, linkShown, token, cachePath, rawKey, wakeAt, uploadedAt,
                   error, sections, lookup>>
    /\ UNCHANGED <<now, loads, codeStatus, dotCache, cacheFiles, rawBucket,
                   processedBucket, log>>
    /\ UNCHANGED pureVars

\* upload_to_s3(local_file_name, 'spotify-raw-data-dk', raw_key) succeeds,
\* authenticate_and_extract returns raw_key to main, and main enters
\* time.sleep(5).
UploadOk(s) ==
    /\ pc[s] = "upload"
    /\ rawBucket' =
          (RawKeyOf(localName[s]) :> localFiles[localName[s]]) @@ rawBucket
    /\ rawKey' = [rawKey EXCEPT ![s] = RawKeyOf(localName[s])]
    /\ localName' = [localName EXCEPT ![s] = ""]
    /\ uploadedAt' = [uploadedAt EXCEPT ![s] = now]
    /\ UNCHANGED stampedAt
    /\ wakeAt' = [wakeAt EXCEPT ![s] = now + FixedDelay]
    /\ trail' = [trail EXCEPT ![s] = @ \o <<"upload", "wait">>]
    /\ pc' = [pc EXCEPT ![s] = "sleeping"]
    /\ UNCHANGED <<url, linkShown, token, cachePath, error, sections, lookup>>
    /\ UNCHANGED <<now, loads, codeStatus, dotCache, cacheFiles, localFiles,
                   processedBucket, log>>
    /\ UNCHANGED pureVars

\* UploadFail with main going on to the wait and the lookup.
UploadFailGoesOn(s) ==
    /\ pc[s] = "upload"
    /\ trail' = Append1(trail, s, "upload_failed")
    /\ error' = [error EXCEPT ![s] = "StorageError"]
    /\ rawKey' = [rawKey EXCEPT ![s] = RawKeyOf(localName[s])]
    /\ localName' = [localName EXCEPT ![s] = ""]
    /\ uploadedAt' = [uploadedAt EXCEPT ![s] = now]
    /\ UNCHANGED stampedAt
    /\ wakeAt' = [wakeAt EXCEPT ![s] = now + FixedDelay]
    /\ pc' = [pc EXCEPT ![s] = "sleeping"]
    /\ UNCHANGED <<url, linkShown, token, cachePath, sections, lookup>>
    /\ UNCHANGED envVars
    /\ UNCHANGED pureVars

\* upload_to_s3 raises: main shows the error and returns.
UploadFail(s) ==
    /\ pc[s] = "upload"
    /\ trail' = Append1(trail, s, "upload_failed")
    /\ error' = [error EXCEPT ![s] = "StorageError"]
    /\ Return(s)
    /\ UNCHANGED <<url, linkShown, sections, lookup>>
    /\ UNCHANGED envVars
    /\ UNCHANGED pureVars

\* ------------------------------------------------------------ wait and fetch
\* Slept with the sleep cut short.
SleptAtOnce(s) == now >= uploadedAt[s]

Slept(s) == now >= wakeAt[s]

\* time.sleep(5) returns.
SleepEnd(s) ==
    /\ pc[s] = "sleeping"
    /\ Slept(s)
    /\ pc' = [pc EXCEPT ![s] = "fetch"]
    /\ UNCHANGED <<url, linkShown, token, cachePath, localName, rawKey, wakeAt,
                   uploadedAt, stampedAt, error, sections, lookup, trail>>
    /\ UNCHANGED envVars
    /\ UNCHANGED pureVars

\* fetch_processed_data returns the parsed object and main renders the six
\* sections from it.
FetchFound(s) ==
    /\ pc[s] = "fetch"
    /\ Derive(rawKey[s]) \in processedBucket
    /\ \E shape \in SampleShapes :
          sections' = [sections EXCEPT ![s] = RenderSections(MakeSnapshot(shape))]
    /\ lookup' = [lookup EXCEPT ![s] = "found"]
    /\ trail' = [trail EXCEPT ![s] = @ \o <<"lookup", "render">>]
    /\ Return(s)
    /\ UNCHANGED <<url, linkShown, error>>
    /\ UNCHANGED envVars
    /\ UNCHANGED pureVars

\* fetch_processed_data catches the failure of get_object or json.loads (no
\* such key, or an unreadable object) and returns None; main shows an error
\* and returns.
FetchUnavailable(s) ==
    /\ pc[s] = "fetch"
    /\ lookup' = [lookup EXCEPT ![s] =
          IF Derive(rawKey[s]) \in processedBucket THEN "failed" ELSE "not_found"]
    /\ error' = [error EXCEPT ![s] = "ProcessedDataUnavailable"]
    /\ trail' = Append1(trail, s, "lookup")
    /\ Return(s)
    /\ UNCHANGED <<url, linkShown, sections>>
    /\ UNCHANGED envVars
    /\ UNCHANGED pureVars

\* ------------------------------------------------------------ environment
\* The key under which the external transformer writes the processed object
\* of a raw object.
LambdaKey(raw_key) ==
    "processed/" \o SubSeq(raw_key, 5, Len(raw_key) - 5) \o ".processed.json"

\* The external transformer writes the processed object of a raw object.
Transform(k) ==
    /\ LambdaKey(k) \notin processedBucket
    /\ processedBucket' = processedBucket \cup {LambdaKey(k)}
    /\ UNCHANGED runVars
    /\ UNCHANGED <<now, loads, codeStatus, dotCache, cacheFiles, localFiles,
                   rawBucket, log>>
    /\ UNCHANGED pureVars

\* A second passes.
Tick ==
    /\ now < MaxTime
    /\ now' = now + 1
    /\ UNCHANGED runVars
    /\ UNCHANGED <<loads, codeStatus, dotCache, cacheFiles, localFiles,
                   rawBucket, processedBucket, log>>
    /\ UNCHANGED pureVars

\* ------------------------------------------------------------ the dashboard
Next ==
    \/ \E s \in Sessions : VisitBase(s)
    \/ \E s \in Sessions : Callback(s)
    \/ \E s \in Sessions : Reload(s)
    \/ \E s \in Sessions : ExchangeOk(s)
    \/ \E s \in Sessions : ExchangeFail(s)
    \/ \E c \in Codes : Expire(c)
    \/ \E s \in Sessions : ProviderCallOk(s)
    \/ \E s \in Sessions : ProviderCallFail(s)
    \/ \E s \in Sessions : WriteLocal(s)
    \/ \E s \in Sessions : UploadOk(s)
    \/ \E s \in Sessions : UploadFail(s)
    \/ \E s \in Sessions : SleepEnd(s)
    \/ \E s \in Sessions : FetchFound(s)
    \/ \E s \in Sessions : FetchUnavailable(s)
    \/ \E k \in DOMAIN rawBucket : Transform(k)
    \/ Tick

Spec == Init /\ [][Next]_vars

\* ------------------------------------------------------------ the key derivation alone
\* File names the derivation is tried on: those the extractor writes
\* (user_spotify_data_<timestamp>) and names built from pieces that hold the
\* two patterns of the transform.
NamePieces == {"foo", "raw/", ".json", "processed/", "user_spotify_data_" \o Stamp(0)}

RECURSIVE NamesOf(_)
NamesOf(n) ==
    IF n = 0 THEN {""}
    ELSE LET shorter == NamesOf(n - 1)
         IN  shorter \cup {p \o m : p \in NamePieces, m \in shorter}

RawKeys == {RawKeyOf(name \o ".json") : name \in NamesOf(MaxPieces) \ {""}}

DeriveInit ==
    /\ PageInit
    /\ keyIn \in RawKeys
    /\ keyOut = NoKey
    /\ RenderIdle /\ ScoreIdle /\ ExtractIdle

\* processed_key = raw_key.replace(...).replace(...)
DeriveKey ==
    /\ keyOut = NoKey
    /\ keyOut' = Derive(keyIn)
    /\ UNCHANGED <<keyIn, shapeIn, rendered, scoreIn, scoreOut, nowMs, plays,
                   recently_played, rawRecent, extracted, pcExtract>>
    /\ UNCHANGED runVars
    /\ UNCHANGED envVars

DeriveNext == DeriveKey

SpecDerive == DeriveInit /\ [][DeriveNext]_vars

\* ------------------------------------------------------------ the renderer alone
RenderInit ==
    /\ PageInit
    /\ shapeIn \in AllShapes
    /\ rendered = NoSections
    /\ DeriveIdle /\ ScoreIdle /\ ExtractIdle

\* Sections 1 to 6 of main on a fetched snapshot.
RenderPage ==
    /\ rendered = NoSections
    /\ rendered' = RenderSections(MakeSnapshot(shapeIn))
    /\ UNCHANGED <<keyIn, keyOut, shapeIn, scoreIn, scoreOut, nowMs, plays,
                   recently_played, rawRecent, extracted, pcExtract>>
    /\ UNCHANGED runVars
    /\ UNCHANGED envVars

RenderNext == RenderPage

SpecRender == RenderInit /\ [][RenderNext]_vars

\* ------------------------------------------------------------ section 2 alone
\* Every mainstream score from 0.00 to 100.00 is given to section 2.
ScoreInit ==
    /\ PageInit
    /\ scoreIn \in 0..MaxScore
    /\ scoreOut = NotRendered
    /\ DeriveIdle /\ RenderIdle /\ ExtractIdle

\* Section 2 of main on a snapshot that holds the score.
RenderScore ==
    /\ scoreOut = NotRendered
    /\ scoreOut' = RenderMainstream("mainstream_score" :> scoreIn)
    /\ UNCHANGED <<keyIn, keyOut, shapeIn, rendered, scoreIn, nowMs, plays,
                   recently_played, rawRecent, extracted, pcExtract>>
    /\ UNCHANGED runVars
    /\ UNCHANGED envVars

ScoreNext == RenderScore

SpecScore == ScoreInit /\ [][ScoreNext]_vars

\* ------------------------------------------------------------ the recently-played step
\* timedelta(days=7), in milliseconds
SevenDaysMs == 604800000
\* limit=50 of the recently-played call
Limit == 50

\* The cutoff with the clock left in seconds.
AfterTimestampSeconds(now_ms) == (now_ms - SevenDaysMs) \div 1000

\* after_timestamp_ms = int(seven_days_ago.timestamp() * 1000); the clock is
\* given in whole milliseconds, counted from an origin a week before the run.
AfterTimestampMs(now_ms) == now_ms - SevenDaysMs

\* The n most recent, or the n oldest, of a set of plays.
Newest(S, n) == {e \in S : Cardinality({x \in S : x > e}) < n}
Oldest(S, n) == {e \in S : Cardinality({x \in S : x < e}) < n}

\* sp.current_user_recently_played(limit, after): at most limit plays that lie
\* after the cursor. The program does not decide whether a play exactly at
\* the cursor counts as after it, nor which plays are dropped when more than
\* limit qualify: both are the provider's, and every outcome is possible.
current_user_recently_played(history, limit, after, inclusive, newest) ==
    LET eligible == {e \in history : e > after \/ (inclusive /\ e = after)}
    IN  IF newest THEN Newest(eligible, limit) ELSE Oldest(eligible, limit)

\* The sizes of the block of plays well inside the window.
BlockSizes == {0, Limit - 1, Limit, Limit + 1}

\* A play history around the cutoff of a run at clock time t: any of the plays
\* within MaxOld ms of the cutoff, and a block of later plays.
Histories(t) ==
    LET cutoff == t - SevenDaysMs
    IN  {{cutoff + o : o \in near} \cup {cutoff + MaxOld + i : i \in 1..n} :
            near \in SUBSET ((0 - MaxOld)..MaxOld), n \in BlockSizes}

ExtractInit ==
    /\ PageInit
    /\ nowMs \in {SevenDaysMs + MaxOld, SevenDaysMs + MaxOld + 1}
    /\ plays \in Histories(nowMs)
    /\ recently_played = {}
    /\ rawRecent = {}
    /\ extracted = FALSE
    /\ pcExtract = "recent"
    /\ DeriveIdle /\ RenderIdle /\ ScoreIdle

\* 4) Recently played for the past 7 days
FetchRecent ==
    /\ pcExtract = "recent"
    /\ \E inclusive \in BOOLEAN, newest \in BOOLEAN :
          recently_played' =
              current_user_recently_played(plays, Limit, AfterTimestampMs(nowMs),
                                           inclusive, newest)
    /\ pcExtract' = "store"
    /\ UNCHANGED <<keyIn, keyOut, shapeIn, rendered, scoreIn, scoreOut, nowMs,
                   plays, rawRecent, extracted>>
    /\ UNCHANGED runVars
    /\ UNCHANGED envVars

\* combined_data is written to the local file and uploaded to the raw bucket.
StoreSnapshot ==
    /\ pcExtract = "store"
    /\ rawRecent' = recently_played
    /\ extracted' = TRUE
    /\ pcExtract' = "done"
    /\ UNCHANGED <<keyIn, keyOut, shapeIn, rendered, scoreIn, scoreOut, nowMs,
                   plays, recently_played>>
    /\ UNCHANGED runVars
    /\ UNCHANGED envVars

ExtractNext == FetchRecent \/ StoreSnapshot

SpecExtract == ExtractInit /\ [][ExtractNext]_vars

\* ------------------------------------------------------------ properties
Earlier(i, j) == i \in 1..Len(log) /\ j \in 1..Len(log) /\ i < j

Last(seq) == seq[Len(seq)]

Count(seq, x) == Cardinality({i \in 1..Len(seq) : seq[i] = x})

Has(seq, x) == \E i \in 1..Len(seq) : seq[i] = x

\* C1: once an authorization code has been exchanged for a token, no later
\* page load (a refresh of the callback URL included) submits that code for
\* exchange again.
C1_ConsumedCodeNeverResubmitted ==
    \A i, j \in 1..Len(log) :
        (Earlier(i, j) /\ log[i].ok) => log[j].code # log[i].code

\* C2: after a failed exchange of a code, no later page load of the session
\* submits that code again.
C2_FailedCodeNeverRetried ==
    \A i, j \in 1..Len(log) :
        (Earlier(i, j) /\ ~log[i].ok /\ log[j].sess = log[i].sess)
            => log[j].code # log[i].code

\* C3: an exchange returns a token exactly when the code is valid and was never
\* exchanged before, so at most once per code; every exchange of a code after
\* its successful exchange fails, and the page load that meets the failure
\* shows AuthExchangeError and stops without calling the provider further.
C3_ExchangeAtMostOnce ==
    /\ \A i \in 1..Len(log) : log[i].ok <=> (log[i].was = "valid")
    /\ \A i, j \in 1..Len(log) :
          (Earlier(i, j) /\ log[i].ok /\ log[j].code = log[i].code) => ~log[j].ok
    /\ \A s \in Sessions :
          Has(trail[s], "exchange_failed") =>
              /\ trail[s] = <<"exchange_failed">>
              /\ pc[s] = "idle"
              /\ error[s] = "AuthExchangeError"
              /\ token[s] = NoToken

\* A code was exchanged, then submitted again by a reload, and that page load
\* stopped with AuthExchangeError.
C3_Witness ==
    \E s \in Sessions : \E i, j \in 1..Len(log) :
        /\ Earlier(i, j)
        /\ log[i].ok /\ log[i].sess = s
        /\ log[j].code = log[i].code /\ log[j].sess = s /\ ~log[j].ok
        /\ error[s] = "AuthExchangeError"
        /\ pc[s] = "idle"

FailedCalls == {ProviderCalls[i] \o "_failed" : i \in 1..Len(ProviderCalls)}

CallFailed(s) == \E f \in FailedCalls : Has(trail[s], f)

\* What the extraction with the token of code c has stored.
StoredBy(c) ==
    {n \in DOMAIN localFiles : localFiles[n] = Token(c)}
        \cup {k \in DOMAIN rawBucket : rawBucket[k] = Token(c)}

\* C4: when one of the four provider calls of an extraction fails, the page
\* load stops with ExtractionError right there: no local file is written and
\* no raw object is put for that extraction, and no call is made twice.
C4_FailedCallStoresNothing ==
    \A s \in Sessions :
        CallFailed(s) =>
            /\ pc[s] = "idle"
            /\ error[s] = "ExtractionError"
            /\ Last(trail[s]) \in FailedCalls
            /\ ~Has(trail[s], "write")
            /\ ~Has(trail[s], "upload")
            /\ StoredBy(url[s]) = {}
            /\ \A i \in 1..Len(ProviderCalls) :
                  Count(trail[s], ProviderCalls[i])
                      + Count(trail[s], ProviderCalls[i] \o "_failed") <= 1

\* The recently-played call, the last of the four, failed after the other
\* three succeeded, while the other session has stored a snapshot.
C4_Witness ==
    \E s \in Sessions :
        /\ trail[s] = <<"exchange", "profile", "artists", "tracks", "recent_failed">>
        /\ \E o \in Sessions \ {s} : url[o] # NoCode /\ StoredBy(url[o]) # {}

Authenticated(s) == \E i \in 1..Len(log) : log[i].sess = s /\ log[i].ok

\* C5: after an ExtractionError the user can retry by reloading the page: the
\* page left by the error is one whose reload can obtain a token, because the
\* code in its URL can still be exchanged or the session still holds the token.
C5_ReloadCanRetryExtraction ==
    \A s \in Sessions :
        (pc[s] = "idle" /\ error[s] = "ExtractionError")
            => (codeStatus[url[s]] = "valid" \/ token[s] # NoToken)

\* C6: after a successful exchange the session keeps its access token and
\* stays authenticated: the token stays stored for the later page loads of the
\* session, and none of them stands at a code exchange again.
C6_SessionKeepsToken ==
    \A s \in Sessions :
        Authenticated(s) => (token[s] # NoToken /\ pc[s] # "exchange")

\* C7: a page load looks the processed object up at most once, and only after
\* its single wait, which ends no sooner than the fixed delay after the raw
\* upload; after the lookup the page load is over, found or not.
C7_OneLookupAfterTheDelay ==
    \A s \in Sessions :
        /\ Count(trail[s], "wait") <= 1
        /\ Count(trail[s], "lookup") <= 1
        /\ pc[s] = "fetch" =>
              /\ now >= uploadedAt[s] + FixedDelay
              /\ Has(trail[s], "upload")
              /\ Count(trail[s], "wait") = 1
              /\ ~Has(trail[s], "lookup")
        /\ Has(trail[s], "lookup") =>
              /\ pc[s] = "idle"
              /\ \E i, j, k \in 1..Len(trail[s]) :
                    /\ i < j /\ j < k
                    /\ trail[s][i] = "upload"
                    /\ trail[s][j] = "wait"
                    /\ trail[s][k] = "lookup"

\* One page load found the processed object after its wait and another found
\* none: the transformer had finished for the first only.
C7_Witness ==
    \E s, o \in Sessions :
        /\ lookup[s] = "found" /\ Has(trail[s], "wait") /\ Has(trail[s], "lookup")
        /\ lookup[o] = "not_found" /\ Has(trail[o], "wait") /\ Has(trail[o], "lookup")

\* C8: when the lookup finds no object for the key, or fails otherwise, the
\* page still renders all six sections, each with its "no data" fallback.
C8_UnavailableRendersFallbacks ==
    \A s \in Sessions :
        lookup[s] \in {"not_found", "failed"} =>
            \A k \in SectionNames : sections[s][k] = NoData

\* C9: of a fetched snapshot, every section whose sub-object is empty or
\* missing shows the "no data" indicator, and every other section shows its
\* data.
C9_EachSectionDegradesAlone ==
    rendered # NoSections =>
        \A k \in SectionNames :
            /\ shapeIn[k] # "data" => rendered[k] = NoData
            /\ shapeIn[k] = "data" => rendered[k].kind \notin {"no_data", "not_rendered"}

\* The file name of a raw key raw/<name>.json
NameOf(raw_key) == SubSeq(raw_key, Len("raw/") + 1, Len(raw_key) - Len(".json"))

C11_DeriveIsStable ==
    keyOut # NoKey => Derive(keyOut) = keyOut


\* C12: a page load whose URL carries a code resumes authorization: it goes
\* to the exchange of that code, once, and shows no authorize URL; a page load
\* without a code starts authorization: it shows the authorize URL and does
\* nothing else (no exchange, extraction, upload or fetch).
C12_CodeDecidesResumeOrStart ==
    /\ Len(log) + Cardinality({s \in Sessions : pc[s] = "exchange"}) = loads
    /\ \A s \in Sessions :
          /\ url[s] # NoCode =>
                /\ ~linkShown[s]
                /\ ~Has(trail[s], "authorize_url")
                /\ \/ pc[s] = "exchange" /\ trail[s] = <<>>
                   \/ /\ pc[s] # "exchange"
                      /\ Len(trail[s]) > 0
                      /\ trail[s][1] \in {"exchange", "exchange_failed"}
                      /\ Count(trail[s], "exchange")
                            + Count(trail[s], "exchange_failed") = 1
          /\ url[s] = NoCode =>
                /\ pc[s] = "idle"
                /\ token[s] = NoToken
                /\ lookup[s] = "none"
                /\ trail[s] \in {<<>>, <<"authorize_url">>}
                /\ linkShown[s] <=> (trail[s] = <<"authorize_url">>)

\* One session came back with a code and had it exchanged; the other opened
\* the base URL and sees the login link.
C12_Witness ==
    \E s, o \in Sessions :
        /\ url[s] # NoCode /\ Has(trail[s], "exchange")
        /\ url[o] = NoCode /\ linkShown[o] /\ trail[o] = <<"authorize_url">>


\* The cutoff of the recently-played step: seven days before its clock time.
Cutoff == nowMs - SevenDaysMs

\* The plays of the history at or after the cutoff.
InWindow == {e \in plays : e >= Cutoff}

C14_BranchByScore ==
    scoreOut # NotRendered =>
        /\ scoreOut.kind = "score"
        /\ 10 * scoreOut.shown - scoreIn \in -5..5
        /\ scoreOut.branch = "very_mainstream" <=> scoreIn >= 7000
        /\ scoreOut.branch = "moderately_mainstream" <=> (scoreIn >= 4000 /\ scoreIn < 7000)
        /\ scoreOut.branch = "indie" <=> scoreIn < 4000

\* C14: a score that rounds to 0.0 (below 0.05) shows the no-data notice; every
\* other score is shown rounded to one decimal and the branch is chosen by the
\* shown value: very mainstream when it is 70.0 or more, moderately mainstream
\* from 40.0 up to but excluding 70.0, indie below 40.0. Scores of 70 and more
\* are hence very mainstream, and so are those from 69.95 that round to 70.0.
C14_BranchByShownScore ==
    scoreOut # NotRendered =>
        /\ scoreOut.kind \in {"score", "no_data"}
        /\ scoreOut.kind = "no_data" <=> scoreIn < 5
        /\ scoreOut.kind = "score" =>
              /\ 10 * scoreOut.shown - scoreIn \in -5..5
              /\ scoreOut.branch = "very_mainstream" <=> scoreOut.shown >= 700
              /\ scoreOut.branch = "moderately_mainstream" <=>
                    (scoreOut.shown >= 400 /\ scoreOut.shown < 700)
              /\ scoreOut.branch = "indie" <=> scoreOut.shown < 400
              /\ scoreIn >= 7000 => scoreOut.branch = "very_mainstream"
              /\ scoreOut.branch = "very_mainstream" => scoreIn >= 6995
              /\ (scoreIn >= 4000 /\ scoreIn < 6995) =>
                    scoreOut.branch = "moderately_mainstream"
              /\ scoreOut.branch = "moderately_mainstream" =>
                    (scoreIn >= 3995 /\ scoreIn < 7000)
              /\ scoreIn < 3995 => scoreOut.branch = "indie"

\* A score just under 70 that is shown as 70.0 with the very-mainstream branch.
C14_Witness ==
    /\ scoreOut # NotRendered
    /\ scoreOut.kind = "score"
    /\ scoreIn < 7000
    /\ scoreOut.shown = 700
    /\ scoreOut.branch = "very_mainstream"


\* The operations of a page load that carries a code, in the order of the code.
OperationOrder ==
    <<"exchange", "profile", "artists", "tracks", "recent", "write", "upload",
      "wait", "lookup", "render">>

\* The operations that can end the page load by raising.
CanFail == {"exchange", "profile", "artists", "tracks", "recent", "upload"}

\* The position each state of a run stands at: the operations done before it.
DoneAt(p) ==
    CASE p = "exchange" -> 0
      [] p = "profile" -> 1
      [] p = "artists" -> 2
      [] p = "tracks" -> 3
      [] p = "recent" -> 4
      [] p = "write" -> 5
      [] p = "upload" -> 6
      [] p = "sleeping" -> 8
      [] p = "fetch" -> 8

\* C15: within one page load the operations happen in the strict order
\* exchange, profile, top artists, top tracks, recently played, local write,
\* raw upload, fixed wait, single lookup, rendering, each only after all the
\* earlier ones succeeded: a failed operation is the last of its page load. No
\* provider call or upload happens without a successful exchange on that page
\* load and no lookup without a successful raw upload.
C15_OperationsInOrder ==
    \A s \in Sessions :
        LET t == trail[s] IN
        /\ \/ t = <<"authorize_url">>
           \/ \E n \in 0..Len(OperationOrder) : t = SubSeq(OperationOrder, 1, n)
           \/ \E n \in 0..(Len(OperationOrder) - 1) :
                 /\ OperationOrder[n + 1] \in CanFail
                 /\ t = SubSeq(OperationOrder, 1, n) \o
                            <<OperationOrder[n + 1] \o "_failed">>
                 /\ pc[s] = "idle"
        /\ pc[s] # "idle" => t = SubSeq(OperationOrder, 1, DoneAt(pc[s]))
        /\ pc[s] \in {"profile", "artists", "tracks", "recent", "write", "upload"} =>
              /\ token[s] # NoToken
              /\ \E i \in 1..Len(log) : log[i].sess = s /\ log[i].ok
        /\ pc[s] \in {"sleeping", "fetch"} => rawKey[s] \in DOMAIN rawBucket
        /\ Has(t, "lookup") => lookup[s] # "none"
        /\ Has(t, "render") <=> lookup[s] = "found"
        /\ lookup[s] = "found" => sections[s] # NoSections

\* One page load went through all ten operations; another stopped at a provider
\* call that failed after the exchange and two calls had succeeded.
C15_Witness ==
    \E s, o \in Sessions :
        /\ trail[s] = OperationOrder
        /\ trail[o] = <<"exchange", "profile", "artists", "tracks_failed">>


\* The token cache written under a session's cache path.
CacheOf(s) == {f \in cacheFiles : f[1] = cachePath[s]}

\* A step in which session s does nothing itself.
Quiet(s) ==
    /\ pc'[s] = pc[s]
    /\ trail'[s] = trail[s]
    /\ url'[s] = url[s]
    /\ linkShown'[s] = linkShown[s]

\* Another session writes its local file under the name of s's: both took
\* their timestamp in the same second.
NameCollision(s) ==
    \E o \in Sessions \ {s} :
        /\ pc[o] = "write" /\ pc'[o] = "upload"
        /\ LocalFileName(now) = localName[s]

\* Another session uploads under the raw key of s.
KeyCollision(s) ==
    \E o \in Sessions \ {s} :
        /\ pc[o] = "upload" /\ pc'[o] = "sleeping"
        /\ RawKeyOf(localName[o]) = rawKey[s]

\* What a session uses stays as it is.
Untouched(s) ==
    /\ token'[s] = token[s]
    /\ cachePath'[s] = cachePath[s]
    /\ localName'[s] = localName[s]
    /\ rawKey'[s] = rawKey[s]
    /\ {f \in cacheFiles' : f[1] = cachePath[s]} = CacheOf(s)
    /\ localName[s] # "" =>
          /\ localName[s] \in DOMAIN localFiles'
          /\ localFiles'[localName[s]] = localFiles[localName[s]] \/ NameCollision(s)
    /\ rawKey[s] # NoKey =>
          /\ rawKey[s] \in DOMAIN rawBucket'
          /\ rawBucket'[rawKey[s]] = rawBucket[rawKey[s]] \/ KeyCollision(s)

\* Sessions in a run hold different tokens and different cache paths, and the
\* cache of a session holds its own token only.
Separate ==
    \A s \in Sessions :
        /\ \A o \in Sessions \ {s} :
              /\ token[s] # NoToken => token[s] # token[o]
              /\ pc[s] # "idle" => cachePath[s] # cachePath[o]
        /\ token[s] # NoToken => CacheOf(s) = {<<cachePath[s], token[s]>>}

\* C16: in every interleaving of the page loads of two sessions, no step of
\* one session (building an authorize URL, exchanging a code, extracting)
\* changes, removes or shares the token, the token cache, the local snapshot
\* file or the raw object another session is using, except when both write
\* under the same timestamp.
C16_SessionsDoNotInterfere ==
    /\ []Separate
    /\ [][\A s \in Sessions : Quiet(s) => Untouched(s)]_vars

\* Both sessions stand between their local write and their upload, each with
\* a token, a cache and a local file of its own.
C16_Witness ==
    \E s, o \in Sessions :
        /\ s # o
        /\ pc[s] = "upload" /\ pc[o] = "upload"
        /\ localName[s] # localName[o]
        /\ localFiles[localName[s]] = token[s]
        /\ localFiles[localName[o]] = token[o]
        /\ CacheOf(s) = {<<cachePath[s], token[s]>>}
        /\ CacheOf(o) = {<<cachePath[o], token[o]>>}


\* The session's extraction has uploaded its raw object and not yet returned.
Uploaded(s) == pc[s] \in {"sleeping", "fetch"}

\* File names stamped in different seconds give different raw keys and
\* different processed keys.
DistinctSecondsDistinctKeys ==
    \A t1, t2 \in 0..MaxTime :
        t1 # t2 =>
            /\ RawKeyOf(LocalFileName(t1)) # RawKeyOf(LocalFileName(t2))
            /\ Derive(RawKeyOf(LocalFileName(t1))) # Derive(RawKeyOf(LocalFileName(t2)))

\* C17 as stated: two extractions get the same raw key exactly when they
\* complete within the same wall-clock second.
C17_SameKeyIffSameCompletionSecond ==
    \A s \in Sessions : \A o \in Sessions \ {s} :
        (Uploaded(s) /\ Uploaded(o)) =>
            (rawKey[s] = rawKey[o] <=> uploadedAt[s] = uploadedAt[o])

\* C17: two extractions get the same raw key exactly when they take the
\* timestamp of their file name (after the provider calls, before the local
\* write and the upload) in the same wall-clock second, whenever their uploads
\* complete. Then the raw bucket holds one object under that key, the document
\* of one of the two, and both derive the same processed key. Timestamps of
\* different seconds always give distinct raw keys and distinct processed keys.
C17_SameKeyIffSameStampSecond ==
    /\ \A s \in Sessions : \A o \in Sessions \ {s} :
          (Uploaded(s) /\ Uploaded(o)) =>
              /\ rawKey[s] = rawKey[o] <=> stampedAt[s] = stampedAt[o]
              /\ Derive(rawKey[s]) = Derive(rawKey[o]) <=> stampedAt[s] = stampedAt[o]
              /\ rawKey[s] = rawKey[o] => rawBucket[rawKey[s]] \in {token[s], token[o]}
              /\ rawKey[s] # rawKey[o] =>
                    /\ rawBucket[rawKey[s]] = token[s]
                    /\ rawBucket[rawKey[o]] = token[o]
    /\ \A s \in Sessions :
          Uploaded(s) =>
              /\ rawKey[s] = RawKeyOf(LocalFileName(stampedAt[s]))
              /\ stampedAt[s] <= uploadedAt[s]
    /\ DistinctSecondsDistinctKeys

\* Two extractions took their timestamp in the same second and uploaded in
\* different seconds: they share the raw key and the processed key.
C17_Witness ==
    \E s \in Sessions : \E o \in Sessions \ {s} :
        /\ Uploaded(s) /\ Uploaded(o)
        /\ stampedAt[s] = stampedAt[o]
        /\ uploadedAt[s] # uploadedAt[o]
        /\ rawKey[s] = rawKey[o]
        /\ Derive(rawKey[s]) = Derive(rawKey[o])

====
